---- MODULE Spec2Model ----
(***************************************************************************)
(* A model of the JiraFlow medallion pipeline's algorithmic parts:         *)
(*   - the silver quality gate   (src/src/silver/silver_pipeline.py)       *)
(*   - the business-hours calculator and the SLA classifier                *)
(*                               (src/src/sla/sla_calculation.py)          *)
(*   - the gold stage            (src/src/gold/gold_pipeline.py,           *)
(*                                src/src/utils/date_utils.py)             *)
(*   - the silver stage, the aggregator and the orchestration              *)
(*                               (silver_pipeline.py, gold_pipeline.py,    *)
(*                                src/src/main.py)                         *)
(* Each part has a specification of its own (SpecGate, SpecBH, SpecSla,    *)
(* SpecGold, SpecGoldRuns, SpecStages, SpecMain); the variables of the     *)
(* other parts stay idle in it.                                            *)
(*                                                                         *)
(* Conventions.                                                            *)
(*   A DataFrame is a sequence of rows (records); the field idx is the     *)
(*   row's index label, which boolean indexing preserves.                  *)
(*   A missing value (pd.NA / NaN) of a string column is the string NA.    *)
(*   An instant is a number of seconds since Thursday 2026-12-31 00:00:00  *)
(*   UTC; a missing instant (pd.NaT) is NaT.                               *)
(*   Hours returned by calculate_business_hours carry two decimals; they   *)
(*   are modelled as an integer number of hundredths of an hour.           *)
(***************************************************************************)
EXTENDS Integers, Sequences, FiniteSets, TLC

VARIABLES
    gateInput,    \* the DataFrame handed to split_quality_checks
    gateValid,    \* its first result  (valid)
    gateRejects,  \* its second result (rejects, with reject_reason)
    gateAgainValid,    \* valid of the gate applied to gateValid
    gateAgainRejects,  \* rejects of the gate applied to gateValid
    gatePc,       \* "idle" | "loaded" | "split" | "regated"
    bhStart,      \* start_dt
    bhEnd,        \* end_dt
    bhHolidays,   \* holidays: a set of dates (day numbers)
    bhWindow,     \* <<business_start, business_end>>, seconds after midnight
    bhResult,     \* what calculate_business_hours returned
    bhPrevEnd,    \* end_dt of the call before the latest one
    bhPrevResult, \* what that call returned
    bhPc,         \* "idle" | "ready" | "calculated" | "recalculated"
    slaPriority,  \* priority handed to get_expected_sla_hours
    slaActual,    \* actual_hours handed to get_sla_status, in hundredths
    slaExpected,  \* what get_expected_sla_hours returned
    slaStatus,    \* what get_sla_status returned
    slaPc,        \* "idle" | "ready" | "expected" | "classified"
    goldSilver,   \* the silver dataset run_gold reads
    goldOut,      \* the gold dataset run_gold wrote last
    goldError,    \* the exception that ended the latest run_gold, or "none"
    goldPc,       \* "idle" | "ready" | "done" | "failed"
    holidayCache, \* the years whose holidays_<country>_<year>.json exists
    networkUp,    \* whether the holiday API can be reached
    natDateCompare, \* what ordering pd.NaT against a datetime.date does
    goldFetched,  \* the years the latest run_gold asked the holiday API for
    goldHolidays, \* the holiday set the latest run_gold handed to the calculator
    goldReports,  \* the two reports write_sla_reports wrote last
    silverBronze, \* the bronze dataset the latest run_silver read
    silverRunValid,    \* the valid partition of the latest run_silver
    silverRunRejects,  \* the rejected partition of the latest run_silver
    silverClean,       \* the file silver_issues.parquet
    silverRejectsFile, \* the file silver_rejects.parquet
    silverPc,     \* "idle" | "ready" | "done"
    repInput,     \* the dataset handed to build_sla_reports
    repResult,    \* what build_sla_reports returned
    repPc,        \* "idle" | "ready" | "built"
    mainPc,       \* where the execution of main.py stands
    mainRun,      \* the number of the current execution of main.py
    mainLog,      \* the stages the current execution has started, in order
    mainFiles,    \* for each dataset file, whether it exists and who wrote it
    mainGoldRead, \* the file the gold stage of the current execution read
    mainEnv       \* what the current execution finds outside the program

gateVars == <<gateInput, gateValid, gateRejects, gateAgainValid, gateAgainRejects, gatePc>>
bhVars == <<bhStart, bhEnd, bhHolidays, bhWindow, bhResult, bhPrevEnd, bhPrevResult, bhPc>>

slaVars == <<slaPriority, slaActual, slaExpected, slaStatus, slaPc>>

goldVars ==
    <<goldSilver, goldOut, goldError, goldPc, holidayCache, networkUp, natDateCompare,
      goldFetched, goldHolidays, goldReports>>

silverVars ==
    <<silverBronze, silverRunValid, silverRunRejects, silverClean, silverRejectsFile,
      silverPc>>

repVars == <<repInput, repResult, repPc>>

mainVars == <<mainPc, mainRun, mainLog, mainFiles, mainGoldRead, mainEnv>>

vars == <<gateVars, bhVars, slaVars, goldVars, silverVars, repVars, mainVars>>

(***************************************************************************)
(* Bounds of the model.                                                    *)
(***************************************************************************)
MaxRows == 3

(***************************************************************************)
(* Generic helpers.                                                        *)
(***************************************************************************)
Max(a, b) == IF a >= b THEN a ELSE b
Min(a, b) == IF a <= b THEN a ELSE b

SeqsUpTo(S, n) == UNION {[1..k -> S] : k \in 0..n}

Range(s) == {s[i] : i \in DOMAIN s}

(***************************************************************************)
(*                       THE SILVER QUALITY GATE                           *)
(***************************************************************************)
NA == "<NA>"

IssueIds == {"JIRA-1", "JIRA-2"}
CreatedAts == {"2026-01-05T09:00:00Z"}

\* One row of the cleaned DataFrame, without its index label.
RowValues == [issue_id : IssueIds \cup {NA}, created_at : CreatedAts \cup {NA}]

\* A DataFrame read from Parquet carries a RangeIndex: idx = position.
WithRangeIndex(vals) ==
    [i \in DOMAIN vals |->
        [idx |-> i, issue_id |-> vals[i].issue_id, created_at |-> vals[i].created_at]]

Frames == {WithRangeIndex(v) : v \in SeqsUpTo(RowValues, MaxRows)}

\* Series.isna()
IsNa(v) == v = NA

\* Series.duplicated(keep="first"): a row is flagged when an earlier row holds
\* an equal value; missing values are equal to one another.
DuplicatedKeepLast(df, i) == \E j \in DOMAIN df : j > i /\ df[j].issue_id = df[i].issue_id
Duplicated(df, i) == \E j \in DOMAIN df : j < i /\ df[j].issue_id = df[i].issue_id

\* Series.mask(cond, value): where cond holds the value replaces the entry.
Mask(prev, cond, value) == IF cond THEN value ELSE prev

\* reject_reason of row i: three masks applied one after the other.
RejectReason(df, i) ==
    LET r0 == NA
        r1 == Mask(r0, IsNa(df[i].issue_id), "missing_issue_id")
        r2 == Mask(r1, IsNa(df[i].created_at), "missing_created_at")
        r3 == Mask(r2, Duplicated(df, i), "duplicate_issue_id")
    IN  r3

\* df[mask] from row i on: the rows at which the boolean series mask holds,
\* in order, index labels kept.
RECURSIVE Select(_, _, _)
Select(df, mask, i) ==
    IF i > Len(df) THEN <<>>
    ELSE (IF mask[i] THEN <<df[i]>> ELSE <<>>) \o Select(df, mask, i + 1)

\* rejects["reject_reason"] = value on one row: the row with one more column.
WithReason(r, reason) ==
    [f \in DOMAIN r \cup {"reject_reason"} |->
        IF f = "reject_reason" THEN reason ELSE r[f]]

\* rejects = df[reject_reason.notna()] with the reject_reason column added;
\* the assignment aligns on the index label.
SplitRejectsOnlyDuplicates(df) ==
    LET Rejected == [i \in DOMAIN df |-> Duplicated(df, i)]
        picked == Select(df, Rejected, 1)
    IN  [k \in DOMAIN picked |-> WithReason(picked[k], "duplicate_issue_id")]
SplitRejects(df) ==
    LET Rejected == [i \in DOMAIN df |-> ~IsNa(RejectReason(df, i))]
        picked == Select(df, Rejected, 1)
        ReasonAt(label) ==
            RejectReason(df, CHOOSE i \in DOMAIN df : df[i].idx = label)
    IN  [k \in DOMAIN picked |-> WithReason(picked[k], ReasonAt(picked[k].idx))]

\* valid = df[reject_reason.isna()]
SplitValidIgnoringDuplicates(df) ==
    LET Kept == [i \in DOMAIN df |-> ~IsNa(df[i].issue_id) /\ ~IsNa(df[i].created_at)]
    IN  Select(df, Kept, 1)
SplitValid(df) ==
    LET Kept == [i \in DOMAIN df |-> IsNa(RejectReason(df, i))]
    IN  Select(df, Kept, 1)

\* Drop the audit column of a rejected row.
DropReason(r) == [f \in DOMAIN r \ {"reject_reason"} |-> r[f]]

GateIdle ==
    /\ gateInput = <<>>
    /\ gateValid = <<>>
    /\ gateRejects = <<>>
    /\ gateAgainValid = <<>>
    /\ gateAgainRejects = <<>>
    /\ gatePc = "idle"

GateInit ==
    /\ gateInput \in Frames
    /\ gateValid = <<>>
    /\ gateRejects = <<>>
    /\ gateAgainValid = <<>>
    /\ gateAgainRejects = <<>>
    /\ gatePc = "loaded"

\* validated, rejects = split_quality_checks(cleaned)
SplitQualityChecks ==
    /\ gatePc = "loaded"
    /\ gateValid' = SplitValid(gateInput)
    /\ gateRejects' = SplitRejects(gateInput)
    /\ gatePc' = "split"
    /\ UNCHANGED <<gateInput, gateAgainValid, gateAgainRejects>>
    /\ UNCHANGED <<bhVars, slaVars, goldVars, silverVars, repVars, mainVars>>

\* The gate applied to its own valid output.
Regate ==
    /\ gatePc = "split"
    /\ gateAgainValid' = SplitValid(gateValid)
    /\ gateAgainRejects' = SplitRejects(gateValid)
    /\ gatePc' = "regated"
    /\ UNCHANGED <<gateInput, gateValid, gateRejects>>
    /\ UNCHANGED <<bhVars, slaVars, goldVars, silverVars, repVars, mainVars>>

GateNext == SplitQualityChecks \/ Regate

(***************************************************************************)
(*                  THE BUSINESS-HOURS CALCULATOR                          *)
(***************************************************************************)
\* The calendar. Day 0 is Thursday 2026-12-31, so the days of the model run
\* over a weekend, a year change and the public holiday of 1 January 2027.
SecondsPerDay == 86400
SecondsPerHour == 3600
MaxDay == 4

Days == 0..MaxDay

\* datetime.date(): the calendar day of an instant.
DateOf(t) == t \div SecondsPerDay

\* datetime.weekday() of a day: Monday is 0, Sunday is 6.
WeekdayOf(d) == (d + 3) % 7

\* datetime.combine(date, time, tzinfo): the instant of a time of day on a day.
Combine(d, tod) == d * SecondsPerDay + tod

TimeOfDay(h, m, s) == h * SecondsPerHour + m * 60 + s

\* The defaults of business_start and business_end.
DefaultWindow == <<TimeOfDay(0, 0, 0), TimeOfDay(23, 59, 59)>>
OfficeWindow == <<TimeOfDay(9, 0, 0), TimeOfDay(17, 0, 0)>>
Windows == {DefaultWindow, OfficeWindow}

TimesOfDay ==
    {TimeOfDay(0, 0, 0), TimeOfDay(9, 0, 0), TimeOfDay(10, 0, 0), TimeOfDay(16, 0, 0),
     TimeOfDay(16, 0, 20), TimeOfDay(17, 0, 0), TimeOfDay(23, 59, 59)}

Instants == {Combine(d, tod) : d \in Days, tod \in TimesOfDay}

\* Friday 1 January 2027 and Monday 4 January 2027.
Friday == CHOOSE d \in Days : WeekdayOf(d) = 4
Monday == CHOOSE d \in Days : WeekdayOf(d) = 0

\* The holiday calendars handed to the calculator: that Friday and that Monday
\* are the candidates.
HolidaySets == SUBSET {Friday, Monday}

NaT == -1
IsNaT(t) == t = NaT

\* What a call returns: a value, or the exception it raised.
Returned(v) == [exc |-> "none", value |-> v]
Raised(e) == [exc |-> e, value |-> 0]

\* round(total_hours, 2) of a duration held in seconds, in hundredths of an
\* hour: one hundredth is 36 seconds, a half goes to the even neighbour.  The
\* code rounds the float sum of the per-day hours, so on a tie, 18 seconds off
\* a hundredth, the float's error decides; on the ties among the instants of
\* the model (a Thursday 00:00:00 to the Monday 16:00:20 after it, say:
\* 64.005 hours) the code returns the even neighbour.
Round2Down(secs) == secs \div 36
Round2(secs) ==
    LET q == secs \div 36
        r == secs % 36
    IN  IF r < 18 THEN q
        ELSE IF r > 18 THEN q + 1
        ELSE IF q % 2 = 0 THEN q ELSE q + 1

\* is_holiday = current.date() in holidays_set
IsHolidayOfEnd(current, end_dt, holidays) == DateOf(end_dt) \in holidays
IsHoliday(current, end_dt, holidays) == DateOf(current) \in holidays

\* if interval_end > interval_start: total_hours += interval_end - interval_start
IntervalSecondsUnchecked(interval_start, interval_end) == interval_end - interval_start
IntervalSeconds(interval_start, interval_end) ==
    IF interval_end > interval_start THEN interval_end - interval_start ELSE 0

\* current = datetime.combine(current.date(), time(0, 0)) + timedelta(days=1)
NextDay(current) == Combine(DateOf(current), 0) + SecondsPerDay

\* One pass of the while loop: the seconds it adds to total_hours.
WalkOneDay(current, end_dt, holidays, business_start, business_end) ==
    LET is_weekday == WeekdayOf(DateOf(current)) < 5
        is_holiday == IsHoliday(current, end_dt, holidays)
        day_start == Combine(DateOf(current), business_start)
        day_end == Combine(DateOf(current), business_end)
        interval_start == Max(current, day_start)
        interval_end == Min(end_dt, day_end)
    IN  IF is_weekday /\ ~is_holiday
        THEN IntervalSeconds(interval_start, interval_end)
        ELSE 0

\* The passes of the loop from `current` to the day `last`: after the first
\* pass `current` is the midnight of the next day.  The passes are summed by
\* halves, which keeps the evaluation of a walk of many days shallow.
RECURSIVE WalkSpan(_, _, _, _, _, _)
WalkSpan(current, last, end_dt, holidays, business_start, business_end) ==
    IF DateOf(current) = last
    THEN WalkOneDay(current, end_dt, holidays, business_start, business_end)
    ELSE LET mid == (DateOf(current) + last) \div 2
         IN  WalkSpan(current, mid, end_dt, holidays, business_start, business_end)
             + WalkSpan(NextDay(Combine(mid, 0)), last, end_dt, holidays,
                        business_start, business_end)

\* The while loop: the seconds added to total_hours from `current` on.
WalkDays(current, end_dt, holidays, business_start, business_end) ==
    IF ~(DateOf(current) <= DateOf(end_dt)) THEN 0
    ELSE WalkSpan(current, DateOf(end_dt), end_dt, holidays,
                  business_start, business_end)

\* current.date() <= end_dt.date() when one side is NaT.date(), which is NaT,
\* and the other a datetime.date: pandas 2 raises TypeError, pandas before 2
\* warns and answers False, which skips the loop.
LoopTestWithOneNaT ==
    IF natDateCompare = "TypeError" THEN Raised("TypeError") ELSE Returned(Round2(0))

\* calculate_business_hours(start_dt, end_dt, holidays, business_start,
\* business_end).  With pd.NaT for an instant, every order comparison of NaT
\* with a datetime is False: line 21 does not return, and the walk starts at
\* the loop test of line 32.  Two NaT compare False there and the loop is
\* skipped.
CalculateBusinessHours(start_dt, end_dt, holidays, business_start, business_end) ==
    IF IsNaT(start_dt) /\ IsNaT(end_dt) THEN Returned(Round2(0))
    ELSE IF IsNaT(start_dt) \/ IsNaT(end_dt) THEN LoopTestWithOneNaT
    ELSE IF end_dt <= start_dt THEN Returned(0)
    ELSE Returned(Round2(WalkDays(start_dt, end_dt, holidays,
                                  business_start, business_end)))

NoResult == Raised("not called")

BhIdle ==
    /\ bhStart = 0
    /\ bhEnd = 0
    /\ bhHolidays = {}
    /\ bhWindow = DefaultWindow
    /\ bhResult = NoResult
    /\ bhPrevEnd = 0
    /\ bhPrevResult = NoResult
    /\ bhPc = "idle"

BhInit ==
    /\ bhStart \in Instants
    /\ bhEnd \in Instants
    /\ bhHolidays \in HolidaySets
    /\ bhWindow \in Windows
    /\ bhResult = NoResult
    /\ bhPrevEnd = 0
    /\ bhPrevResult = NoResult
    /\ bhPc = "ready"

\* calculate_business_hours(start, end, holidays, open, close)
Calculate ==
    /\ bhPc = "ready"
    /\ bhResult' = CalculateBusinessHours(bhStart, bhEnd, bhHolidays,
                                          bhWindow[1], bhWindow[2])
    /\ bhPc' = "calculated"
    /\ UNCHANGED <<bhStart, bhEnd, bhHolidays, bhWindow, bhPrevEnd, bhPrevResult>>
    /\ UNCHANGED <<gateVars, slaVars, goldVars, silverVars, repVars, mainVars>>

\* A second call with the same start, holidays and window and another end.
Recalculate ==
    /\ bhPc = "calculated"
    /\ \E e \in Instants :
        /\ bhEnd' = e
        /\ bhResult' = CalculateBusinessHours(bhStart, e, bhHolidays,
                                              bhWindow[1], bhWindow[2])
    /\ bhPrevEnd' = bhEnd
    /\ bhPrevResult' = bhResult
    /\ bhPc' = "recalculated"
    /\ UNCHANGED <<bhStart, bhHolidays, bhWindow>>
    /\ UNCHANGED <<gateVars, slaVars, goldVars, silverVars, repVars, mainVars>>

BhNext == Calculate \/ Recalculate

(***************************************************************************)
(*                          THE SLA CLASSIFIER                             *)
(***************************************************************************)
SlaMargin == 1

\* Priority labels as clean_data leaves them (title case), one the table does
\* not know, one in another case, and a missing one.
Priorities == {"High", "Medium", "Low", "Critical", "high", NA}

\* mapping.get(priority, 72)
GetExpectedSlaHoursNoDefault(priority) ==
    CASE priority = "High" -> 24
      [] priority = "Medium" -> 72
      [] priority = "Low" -> 120
      [] OTHER -> 0
GetExpectedSlaHours(priority) ==
    CASE priority = "High" -> 24
      [] priority = "Medium" -> 72
      [] priority = "Low" -> 120
      [] OTHER -> 72

\* "met" if actual_hours <= expected_hours else "violated"; actual_hours in
\* hundredths of an hour, expected_hours in hours.
GetSlaStatusStrict(actual_hours, expected_hours) ==
    IF actual_hours < expected_hours * 100 THEN "met" ELSE "violated"
GetSlaStatus(actual_hours, expected_hours) ==
    IF actual_hours <= expected_hours * 100 THEN "met" ELSE "violated"

\* Actual hours around every budget of the table, in hundredths.
ActualHours ==
    {0} \cup {GetExpectedSlaHours(p) * 100 + d : p \in Priorities, d \in (-SlaMargin)..SlaMargin}

SlaIdle ==
    /\ slaPriority = NA
    /\ slaActual = 0
    /\ slaExpected = 0
    /\ slaStatus = NA
    /\ slaPc = "idle"

SlaInit ==
    /\ slaPriority \in Priorities
    /\ slaActual \in ActualHours
    /\ slaExpected = 0
    /\ slaStatus = NA
    /\ slaPc = "ready"

\* expected = get_expected_sla_hours(priority)
ExpectedHours ==
    /\ slaPc = "ready"
    /\ slaExpected' = GetExpectedSlaHours(slaPriority)
    /\ slaPc' = "expected"
    /\ UNCHANGED <<slaPriority, slaActual, slaStatus>>
    /\ UNCHANGED <<gateVars, bhVars, goldVars, silverVars, repVars, mainVars>>

\* get_sla_status(actual, expected)
Classify ==
    /\ slaPc = "expected"
    /\ slaStatus' = GetSlaStatus(slaActual, slaExpected)
    /\ slaPc' = "classified"
    /\ UNCHANGED <<slaPriority, slaActual, slaExpected>>
    /\ UNCHANGED <<gateVars, bhVars, goldVars, silverVars, repVars, mainVars>>

SlaNext == ExpectedHours \/ Classify

(***************************************************************************)
(*                          THE SILVER STAGE                               *)
(***************************************************************************)
MaxBronzeRows == 2

\* The columns of a bronze dataset that the silver stage is followed through.
BronzeColumns == {"issue_id", "created_at", "status"}

RawCreatedAts == {"2026-12-31 09:00:00+00:00", "n/a"}
RawStatuses == {"done", " OPEN ", "In Progress"}

\* What one row of a bronze dataset with the given columns holds.  A column
\* the dataset lacks has no values; its field is written NA and never read.
BronzeRowValues(columns) ==
    [issue_id : IF "issue_id" \in columns THEN IssueIds \cup {NA} ELSE {NA},
     created_at : IF "created_at" \in columns THEN RawCreatedAts \cup {NA} ELSE {NA},
     status : IF "status" \in columns THEN RawStatuses ELSE {NA}]

\* read_bronze(path): the rows under a RangeIndex.
ReadBronze(vals) ==
    [i \in DOMAIN vals |->
        [idx |-> i, issue_id |-> vals[i].issue_id,
         created_at |-> vals[i].created_at, status |-> vals[i].status]]

BronzeFrames ==
    UNION {{[columns |-> c, rows |-> ReadBronze(v)] :
                v \in SeqsUpTo(BronzeRowValues(c), MaxBronzeRows)} :
            c \in SUBSET BronzeColumns}

\* extract_and_rename_fields(df): a target column the frame lacks is added
\* with pd.NA in every row.
ExtractAndRenameFields(df) ==
    [i \in DOMAIN df.rows |->
        [idx |-> df.rows[i].idx,
         issue_id |-> IF "issue_id" \in df.columns THEN df.rows[i].issue_id ELSE NA,
         created_at |-> IF "created_at" \in df.columns THEN df.rows[i].created_at ELSE NA,
         status |-> IF "status" \in df.columns THEN df.rows[i].status ELSE NA]]

\* pd.to_datetime(value, errors="coerce", utc=True)
ToDatetime(v) ==
    CASE v = "2026-12-31 09:00:00+00:00" -> Combine(0, TimeOfDay(9, 0, 0))
      [] v = "2026-12-31T09:00:00Z" -> Combine(0, TimeOfDay(9, 0, 0))
      [] OTHER -> NaT

\* Series.dt.strftime("%Y-%m-%dT%H:%M:%SZ")
Strftime(t) ==
    CASE t = Combine(0, TimeOfDay(9, 0, 0)) -> "2026-12-31T09:00:00Z"
      [] OTHER -> NA

\* Series.astype("string").str.strip().str.title()
StripTitle(v) ==
    CASE v = "done" -> "Done"
      [] v = " OPEN " -> "Open"
      [] OTHER -> v

\* clean_data(df)
CleanData(df) ==
    [i \in DOMAIN df |->
        [idx |-> df[i].idx, issue_id |-> df[i].issue_id,
         created_at |-> Strftime(ToDatetime(df[i].created_at)),
         status |-> StripTitle(df[i].status)]]

\* df[df["status"].isin(["Open", "Done", "Resolved"])]
FilterStatusesKeepAll(df) == df
FilterStatuses(df) ==
    Select(df, [i \in DOMAIN df |-> df[i].status \in {"Open", "Done", "Resolved"}], 1)

\* df.to_parquet(path, index=False): the file holds the rows without their
\* index labels; read back they stand under a RangeIndex.
ToParquet(df) ==
    [exists |-> TRUE, rows |-> [i \in DOMAIN df |-> [df[i] EXCEPT !.idx = i]]]

NoFile == [exists |-> FALSE, rows |-> <<>>]

SilverIdle ==
    /\ silverBronze = [columns |-> BronzeColumns, rows |-> <<>>]
    /\ silverRunValid = <<>>
    /\ silverRunRejects = <<>>
    /\ silverClean = NoFile
    /\ silverRejectsFile = NoFile
    /\ silverPc = "idle"

SilverInit ==
    /\ silverBronze \in BronzeFrames
    /\ silverRunValid = <<>>
    /\ silverRunRejects = <<>>
    /\ silverClean = NoFile
    /\ silverRejectsFile = NoFile
    /\ silverPc = "ready"

\* run_silver(bronze_path): read_bronze, extract_and_rename_fields, clean_data,
\* split_quality_checks, write_rejects when there are rejects, filter_statuses,
\* write_silver.
RunSilver ==
    /\ silverPc = "ready"
    /\ LET selected == ExtractAndRenameFields(silverBronze)
           cleaned == CleanData(selected)
           valid == SplitValid(cleaned)
           rejects == SplitRejects(cleaned)
           filtered == FilterStatuses(valid)
       IN  /\ silverRunValid' = valid
           /\ silverRunRejects' = rejects
           /\ silverRejectsFile' =
                  IF rejects # <<>> THEN ToParquet(rejects) ELSE silverRejectsFile
           /\ silverClean' = ToParquet(filtered)
           /\ silverPc' = "done"
    /\ UNCHANGED silverBronze
    /\ UNCHANGED <<gateVars, bhVars, slaVars, goldVars, repVars, mainVars>>

SilverNext == RunSilver

\* Runs of the silver stage over changing bronze datasets.  These datasets
\* have every column, and their issues are all done.
RunsBronzeFrames ==
    {[columns |-> BronzeColumns, rows |-> ReadBronze(v)] :
        v \in SeqsUpTo([issue_id : IssueIds \cup {NA},
                        created_at : {"2026-12-31 09:00:00+00:00", NA},
                        status : {"done"}],
                       MaxBronzeRows)}

SilverRunsInit ==
    /\ silverBronze \in RunsBronzeFrames
    /\ silverRunValid = <<>>
    /\ silverRunRejects = <<>>
    /\ silverClean = NoFile
    /\ silverRejectsFile = NoFile
    /\ silverPc = "ready"

\* The next run_silver finds the bronze dataset of that time at bronze_path.
LoadBronze ==
    /\ silverPc = "done"
    /\ silverBronze' \in RunsBronzeFrames
    /\ silverPc' = "ready"
    /\ UNCHANGED <<silverRunValid, silverRunRejects, silverClean, silverRejectsFile>>
    /\ UNCHANGED <<gateVars, bhVars, slaVars, goldVars, repVars, mainVars>>

SilverRunsNext == RunSilver \/ LoadBronze

(***************************************************************************)
(*                           THE AGGREGATOR                                *)
(***************************************************************************)
MaxReportRows == 2

\* required_cols of build_sla_reports
RequiredCols ==
    {"issue_id", "issue_type", "assignee_name", "resolution_time_business_hours"}

IssueTypes == {"Bug"}
AssigneeNames == {"Ana", "Unassigned"}
ReportHours == {100, 300}

\* What one row of a dataset with the given columns holds, of the columns the
\* aggregator reads.  A column the dataset lacks has no values; its field is
\* written NA (0 for the hours) and never read.
ReportRowValues(columns) ==
    [issue_id : IF "issue_id" \in columns THEN {"JIRA-1", NA} ELSE {NA},
     issue_type : IF "issue_type" \in columns THEN IssueTypes \cup {NA} ELSE {NA},
     assignee_name :
        IF "assignee_name" \in columns THEN AssigneeNames \cup {NA} ELSE {NA},
     resolution_time_business_hours :
        IF "resolution_time_business_hours" \in columns THEN ReportHours ELSE {0}]

ReportFrames ==
    UNION {{[columns |-> c, rows |-> v] :
                v \in SeqsUpTo(ReportRowValues(c), MaxReportRows)} :
            c \in SUBSET RequiredCols}

\* The order in which a groupby lists its keys: sorted, the missing key last.
KeyOrder(col) ==
    IF col = "assignee_name" THEN <<"Ana", "Unassigned", NA>> ELSE <<"Bug", NA>>

\* df.groupby(col, dropna=False): the keys of the groups, in order.
GroupKeysDropNa(df, col) ==
    Select(KeyOrder(col),
           [k \in DOMAIN KeyOrder(col) |->
               /\ ~IsNa(KeyOrder(col)[k])
               /\ \E i \in DOMAIN df : df[i][col] = KeyOrder(col)[k]],
           1)
GroupKeys(df, col) ==
    Select(KeyOrder(col),
           [k \in DOMAIN KeyOrder(col) |->
               \E i \in DOMAIN df : df[i][col] = KeyOrder(col)[k]],
           1)

\* The sum of the hours of the rows of a group, from row i on.
RECURSIVE SumHours(_, _, _)
SumHours(df, group, i) ==
    IF i > Len(df) THEN 0
    ELSE (IF i \in group THEN df[i].resolution_time_business_hours ELSE 0)
         + SumHours(df, group, i + 1)

\* mean().round(2) of n values, all held in hundredths, whose sum is total:
\* the nearest hundredth, a half going to the even neighbour.
MeanRound2(total, n) ==
    LET q == total \div n
        r == total % n
    IN  IF 2 * r < n THEN q
        ELSE IF 2 * r > n THEN q + 1
        ELSE IF q % 2 = 0 THEN q ELSE q + 1

\* groupby(col, dropna=False).agg(issue_count=("issue_id", "count"),
\* sla_avg_hours=(hours, "mean")).reset_index(), the mean then rounded: count
\* counts the rows of the group whose issue_id is not missing.
GroupReport(df, col) ==
    LET keys == GroupKeys(df, col)
        Group(key) == {i \in DOMAIN df : df[i][col] = key}
    IN  [k \in DOMAIN keys |->
            [key |-> keys[k],
             issue_count |->
                Cardinality({i \in Group(keys[k]) : ~IsNa(df[i].issue_id)}),
             sla_avg_hours |->
                MeanRound2(SumHours(df, Group(keys[k]), 1),
                           Cardinality(Group(keys[k])))]]

NoReports == [by_assignee |-> <<>>, by_issue_type |-> <<>>]

\* build_sla_reports(df)
BuildSlaReportsUnchecked(df) ==
    [exc |-> "none",
     value |-> [by_assignee |-> GroupReport(df.rows, "assignee_name"),
                by_issue_type |-> GroupReport(df.rows, "issue_type")]]
BuildSlaReports(df) ==
    IF RequiredCols \ df.columns # {}
    THEN [exc |-> "ValueError", value |-> NoReports]
    ELSE [exc |-> "none",
          value |-> [by_assignee |-> GroupReport(df.rows, "assignee_name"),
                     by_issue_type |-> GroupReport(df.rows, "issue_type")]]

RepIdle ==
    /\ repInput = [columns |-> RequiredCols, rows |-> <<>>]
    /\ repResult = [exc |-> "not called", value |-> NoReports]
    /\ repPc = "idle"

RepInit ==
    /\ repInput \in ReportFrames
    /\ repResult = [exc |-> "not called", value |-> NoReports]
    /\ repPc = "ready"

\* One call of build_sla_reports.
BuildReports ==
    /\ repPc = "ready"
    /\ repResult' = BuildSlaReports(repInput)
    /\ repPc' = "built"
    /\ UNCHANGED repInput
    /\ UNCHANGED <<gateVars, bhVars, slaVars, goldVars, silverVars, mainVars>>

RepNext == BuildReports

(***************************************************************************)
(*                           THE GOLD STAGE                                *)
(***************************************************************************)
MaxGoldRows == 2
DEFAULT_HOLIDAY_YEAR == 2026

GoldStatuses == {"Open", "Done", "Resolved"}
GoldPriorities == {"High", NA}
GoldCreatedAts == {Combine(0, TimeOfDay(9, 0, 0)), NaT}
GoldResolvedAts ==
    {Combine(0, TimeOfDay(16, 0, 0)), Combine(Monday, TimeOfDay(17, 0, 0)), NaT}

\* One row of the silver dataset as read_silver returns it: the timestamps
\* parsed back, a missing or unparseable one coerced to NaT.
GoldRowValues ==
    [status : GoldStatuses, priority : GoldPriorities,
     created_at : GoldCreatedAts, resolved_at : GoldResolvedAts]

\* The other columns of the silver dataset take one value in the model: the
\* dataset holds one row for each issue, of one type, without an assignee.
ReadSilver(vals) ==
    [i \in DOMAIN vals |->
        [idx |-> i, issue_id |-> "JIRA-" \o ToString(i),
         issue_type |-> "Bug", assignee_name |-> "Unassigned",
         status |-> vals[i].status, priority |-> vals[i].priority,
         created_at |-> vals[i].created_at, resolved_at |-> vals[i].resolved_at]]

SilverFrames == {ReadSilver(v) : v \in SeqsUpTo(GoldRowValues, MaxGoldRows)}

\* df[df["status"].isin(["Done", "Resolved"])]
FilterResolved(df) ==
    Select(df, [i \in DOMAIN df |-> df[i].status \in {"Done", "Resolved"}], 1)

\* The calendar year of a day: day 0 is 31 December 2026, day 365 is
\* 31 December 2027.
YearOf(d) ==
    IF d < 1 THEN DEFAULT_HOLIDAY_YEAR
    ELSE IF d <= 365 THEN DEFAULT_HOLIDAY_YEAR + 1
    ELSE DEFAULT_HOLIDAY_YEAR + 2

\* The day of a date of 2027.
DayOf2027(month, day) ==
    <<0, 31, 59, 90, 120, 151, 181, 212, 243, 273, 304, 334>>[month] + day

\* pd.to_datetime(df[col]).dt.year.dropna().unique(): the years of the column's
\* instants; the accessor gives float64 values as soon as the column holds a
\* NaT, int32 values otherwise.
YearsOfColumn(df, col) ==
    LET isFloat == \E i \in DOMAIN df : IsNaT(df[i][col])
    IN  {[year |-> YearOf(DateOf(df[i][col])), float |-> isFloat] :
            i \in {j \in DOMAIN df : ~IsNaT(df[j][col])}}

\* years = set(created_years) | set(resolved_years), or the default year: an
\* int and a float of the same value are one element, the left operand's.
HolidayYears(df) ==
    LET created_years == YearsOfColumn(df, "created_at")
        resolved_years == YearsOfColumn(df, "resolved_at")
        years == created_years \cup
                 {y \in resolved_years : \A x \in created_years : x.year # y.year}
    IN  IF years = {} THEN {[year |-> DEFAULT_HOLIDAY_YEAR, float |-> FALSE]}
        ELSE years

\* What fetch_public_holidays keeps of the holiday API's answer for a year,
\* the nation-wide public holidays: none of 2026 from day 0 on, those of 2027,
\* and 1 January 2028.
PublicHolidays(year) ==
    IF year = DEFAULT_HOLIDAY_YEAR + 1
    THEN {DayOf2027(1, 1), DayOf2027(3, 26), DayOf2027(4, 21), DayOf2027(5, 1),
          DayOf2027(9, 7), DayOf2027(10, 12), DayOf2027(11, 2), DayOf2027(11, 15),
          DayOf2027(11, 20), DayOf2027(12, 25)}
    ELSE IF year = DEFAULT_HOLIDAY_YEAR + 2 THEN {DayOf2027(12, 31) + 1}
    ELSE {}

\* urlopen(f"{base_url}/{holiday_year}/{country}"): the request of a float
\* year, ".../2027.0/BR", names no year of the API and is refused.
UrlOpens(key, up) == up /\ ~key.float

\* fetch_public_holidays(year): the cache file holidays_<country>_<year>.json
\* is read when it exists; otherwise the API is asked, and its answer is
\* written to the cache file.  A request that fails raises.
FetchPublicHolidaysOrNone(key, cache, up) ==
    IF key \in cache \/ UrlOpens(key, up)
    THEN [exc |-> "none", value |-> PublicHolidays(key.year),
          cache |-> cache \cup {key},
          fetched |-> IF key \in cache THEN <<>> ELSE <<key>>]
    ELSE [exc |-> "none", value |-> {}, cache |-> cache, fetched |-> <<key>>]
FetchPublicHolidays(key, cache, up) ==
    IF key \in cache
    THEN [exc |-> "none", value |-> PublicHolidays(key.year), cache |-> cache,
          fetched |-> <<>>]
    ELSE IF UrlOpens(key, up)
    THEN [exc |-> "none", value |-> PublicHolidays(key.year),
          cache |-> cache \cup {key}, fetched |-> <<key>>]
    ELSE [exc |-> "URLError", value |-> {}, cache |-> cache, fetched |-> <<key>>]

\* The orders in which a loop can go through a set.
Orders(S) == {o \in [1..Cardinality(S) -> S] : Range(o) = S}

\* build_holiday_set(years): the union of fetch_public_holidays over the
\* years, taken in the order the set lists them, from the i-th on.  An
\* exception ends the loop; what was cached before it stays cached.
RECURSIVE BuildHolidaySet(_, _, _, _)
BuildHolidaySet(order, i, cache, up) ==
    IF i > Len(order)
    THEN [exc |-> "none", value |-> {}, cache |-> cache, fetched |-> <<>>]
    ELSE LET first == FetchPublicHolidays(order[i], cache, up)
             rest == BuildHolidaySet(order, i + 1, first.cache, up)
         IN  IF first.exc # "none" THEN first
             ELSE [exc |-> rest.exc,
                   value |-> IF rest.exc = "none" THEN first.value \cup rest.value
                             ELSE {},
                   cache |-> rest.cache,
                   fetched |-> first.fetched \o rest.fetched]

\* One row of calculate_sla_metrics: the three columns it adds.
SlaMetricsOfRow(row, holidays) ==
    LET hours == CalculateBusinessHours(row.created_at, row.resolved_at, holidays,
                                        DefaultWindow[1], DefaultWindow[2])
        expected == GetExpectedSlaHours(row.priority)
    IN  [idx |-> row.idx, issue_id |-> row.issue_id, issue_type |-> row.issue_type,
         assignee_name |-> row.assignee_name,
         status |-> row.status, priority |-> row.priority,
         created_at |-> row.created_at, resolved_at |-> row.resolved_at,
         exc |-> hours.exc,
         resolution_time_business_hours |-> hours.value,
         expected_sla_hours |-> expected,
         sla_status |-> GetSlaStatus(hours.value, expected)]

\* An enriched row without the marker of the exception its computation raised.
GoldRow(m) ==
    [idx |-> m.idx, issue_id |-> m.issue_id, issue_type |-> m.issue_type,
     assignee_name |-> m.assignee_name,
     status |-> m.status, priority |-> m.priority,
     created_at |-> m.created_at, resolved_at |-> m.resolved_at,
     resolution_time_business_hours |-> m.resolution_time_business_hours,
     expected_sla_hours |-> m.expected_sla_hours,
     sla_status |-> m.sla_status]

\* calculate_sla_metrics(df): the holiday set of the years of df, then the
\* three columns row by row.  An exception of any row ends the call.  On a
\* frame without rows DataFrame.apply returns a frame, and assigning it to the
\* new column raises ValueError.
CalculateSlaMetrics(df, order, cache, up) ==
    LET holidays == BuildHolidaySet(order, 1, cache, up)
        metrics == [i \in DOMAIN df |-> SlaMetricsOfRow(df[i], holidays.value)]
        Ended(e) == [exc |-> e, value |-> <<>>, cache |-> holidays.cache,
                     fetched |-> holidays.fetched, holidays |-> holidays.value]
    IN  IF holidays.exc # "none" THEN Ended(holidays.exc)
        ELSE IF df = <<>> THEN Ended("ValueError")
        ELSE IF \E i \in DOMAIN df : metrics[i].exc # "none" THEN Ended("TypeError")
        ELSE [exc |-> "none",
              value |-> [i \in DOMAIN df |-> GoldRow(metrics[i])],
              cache |-> holidays.cache,
              fetched |-> holidays.fetched,
              holidays |-> holidays.value]

\* The columns of the dataset select_gold_columns returns.
GoldColumns ==
    RequiredCols \cup {"status", "priority", "created_at", "resolved_at",
                       "expected_sla_hours", "sla_status"}

GoldIdle ==
    /\ goldSilver = <<>>
    /\ goldOut = <<>>
    /\ goldError = "none"
    /\ goldPc = "idle"
    /\ holidayCache = {}
    /\ networkUp = TRUE
    /\ natDateCompare = "TypeError"
    /\ goldFetched = <<>>
    /\ goldHolidays = {}
    /\ goldReports = NoReports

GoldInit ==
    /\ goldSilver \in SilverFrames
    /\ goldOut = <<>>
    /\ goldError = "none"
    /\ goldPc = "ready"
    /\ holidayCache = {}
    /\ networkUp \in BOOLEAN
    /\ natDateCompare \in {"TypeError", "False"}
    /\ goldFetched = <<>>
    /\ goldHolidays = {}
    /\ goldReports = NoReports

\* run_gold(): read_silver, filter_resolved, calculate_sla_metrics,
\* select_gold_columns, write_gold, write_sla_reports; an exception ends the
\* run before anything more is written, and what an earlier run wrote stays
\* as it is.
RunGold ==
    /\ goldPc = "ready"
    /\ \E order \in Orders(HolidayYears(FilterResolved(goldSilver))) :
        \E with_sla \in {CalculateSlaMetrics(FilterResolved(goldSilver), order,
                                              holidayCache, networkUp)} :
            LET final_df == [columns |-> GoldColumns, rows |-> with_sla.value]
                reports == BuildSlaReports(final_df)
                written == with_sla.exc = "none"
            IN  /\ holidayCache' = with_sla.cache
                /\ goldFetched' = with_sla.fetched
                /\ goldHolidays' = with_sla.holidays
                /\ goldError' = IF written THEN reports.exc ELSE with_sla.exc
                /\ goldOut' = IF written THEN with_sla.value ELSE goldOut
                /\ goldReports' =
                       IF written /\ reports.exc = "none" THEN reports.value
                       ELSE goldReports
                /\ goldPc' = IF written /\ reports.exc = "none" THEN "done"
                             ELSE "failed"
    /\ UNCHANGED <<goldSilver, networkUp, natDateCompare>>
    /\ UNCHANGED <<gateVars, bhVars, slaVars, silverVars, repVars, mainVars>>

\* Between two runs the network comes and goes.
NextRun ==
    /\ goldPc \in {"done", "failed"}
    /\ goldPc' = "ready"
    /\ goldError' = "none"
    /\ networkUp' \in BOOLEAN
    /\ UNCHANGED <<goldSilver, goldOut, holidayCache, natDateCompare,
                   goldFetched, goldHolidays, goldReports>>
    /\ UNCHANGED <<gateVars, bhVars, slaVars, silverVars, repVars, mainVars>>

GoldNext == RunGold \/ NextRun

\* Runs of the gold stage over changing silver datasets.  The issues of these
\* datasets are all closed, created on Thursday 31 December 2026 at 09:00 and
\* resolved on Monday 4 January 2027, on Monday 3 January 2028, or without a
\* resolution time.
RunsResolvedAts ==
    {Combine(Monday, TimeOfDay(17, 0, 0)),
     Combine(DayOf2027(12, 31) + 3, TimeOfDay(17, 0, 0)), NaT}

RunsRowValues ==
    [status : {"Done"}, priority : {"High"},
     created_at : {Combine(0, TimeOfDay(9, 0, 0))}, resolved_at : RunsResolvedAts]

RunsSilverFrames == {ReadSilver(v) : v \in SeqsUpTo(RunsRowValues, MaxGoldRows)}

GoldRunsInit ==
    /\ goldSilver \in RunsSilverFrames
    /\ goldOut = <<>>
    /\ goldError = "none"
    /\ goldPc = "ready"
    /\ holidayCache = {}
    /\ networkUp \in BOOLEAN
    /\ natDateCompare \in {"TypeError", "False"}
    /\ goldFetched = <<>>
    /\ goldHolidays = {}
    /\ goldReports = NoReports

\* The next run_gold finds the silver dataset of that time at silver_path.
LoadSilver ==
    /\ goldPc \in {"done", "failed"}
    /\ goldSilver' \in RunsSilverFrames
    /\ goldPc' = "ready"
    /\ goldError' = "none"
    /\ networkUp' \in BOOLEAN
    /\ UNCHANGED <<goldOut, holidayCache, natDateCompare,
                   goldFetched, goldHolidays, goldReports>>
    /\ UNCHANGED <<gateVars, bhVars, slaVars, silverVars, repVars, mainVars>>

GoldRunsNext == RunGold \/ LoadSilver

(***************************************************************************)
(*                      THE ORCHESTRATION, main.py                         *)
(***************************************************************************)
MaxMainRuns == 2

\* The dataset files of the layers: what ingest_raw_data, run_bronze,
\* run_silver and run_gold write by default, and what run_gold reads by
\* default.
RawFile == "raw"
BronzeFile == "jira_bronze.parquet"
SilverOutFile == "silver_issues.parquet"
GoldInFile == "jira_silver.parquet"
GoldOutFile == "jira_gold.parquet"
MainFileNames == {RawFile, BronzeFile, SilverOutFile, GoldInFile, GoldOutFile}

\* A file that does not exist; a file written by the run-th execution of
\* main.py (by something else when run is 0).
Missing == [exists |-> FALSE, run |-> 0]
WrittenBy(run) == [exists |-> TRUE, run |-> run]

\* What an execution finds outside the program: whether a raw file can be had
\* (locally or from the blob store), whether its JSON holds a list of issues,
\* and whether the computation of the gold stage goes through.
MainEnvs == [rawSource : BOOLEAN, rawHasIssues : BOOLEAN, goldComputes : BOOLEAN]

MainIdle ==
    /\ mainPc = "idle"
    /\ mainRun = 0
    /\ mainLog = <<>>
    /\ mainFiles = [f \in MainFileNames |-> Missing]
    /\ mainGoldRead = ""
    /\ mainEnv = [rawSource |-> TRUE, rawHasIssues |-> TRUE, goldComputes |-> TRUE]

\* Before the first execution no layer has written anything; a file may lie
\* at the path the gold stage reads.
MainInit ==
    /\ mainPc = "start"
    /\ mainRun = 1
    /\ mainLog = <<>>
    /\ \E given \in {Missing, WrittenBy(0)} :
         mainFiles = [f \in MainFileNames |-> IF f = GoldInFile THEN given ELSE Missing]
    /\ mainGoldRead = ""
    /\ mainEnv \in MainEnvs

MainUnchanged == UNCHANGED <<gateVars, bhVars, slaVars, goldVars, silverVars, repVars>>

\* Line 17, a statement of the module: run_gold() with its default paths.  An
\* exception ends the execution of the module.
MainGold ==
    /\ mainPc = "start"
    /\ mainLog' = Append(mainLog, "gold")
    /\ mainGoldRead' = GoldInFile
    /\ IF mainFiles[GoldInFile].exists /\ mainEnv.goldComputes
       THEN /\ mainFiles' = [mainFiles EXCEPT ![GoldOutFile] = WrittenBy(mainRun)]
            /\ mainPc' = "gold_done"
       ELSE /\ mainFiles' = mainFiles
            /\ mainPc' = "crashed"
    /\ UNCHANGED <<mainRun, mainEnv>>
    /\ MainUnchanged

\* Lines 20-21 and 14: run_pipeline() is called and starts with
\* ingest_raw_data().
MainIngest ==
    /\ mainPc = "gold_done"
    /\ mainLog' = Append(mainLog, "ingest")
    /\ IF mainEnv.rawSource
       THEN /\ mainFiles' = [mainFiles EXCEPT ![RawFile] = WrittenBy(mainRun)]
            /\ mainPc' = "ingested"
       ELSE /\ mainFiles' = mainFiles
            /\ mainPc' = "crashed"
    /\ UNCHANGED <<mainRun, mainGoldRead, mainEnv>>
    /\ MainUnchanged

\* Line 15: run_bronze(raw_path); validate_raw_schema raises on a raw file
\* without a list of issues.
MainBronze ==
    /\ mainPc = "ingested"
    /\ mainLog' = Append(mainLog, "bronze")
    /\ IF mainEnv.rawHasIssues
       THEN /\ mainFiles' = [mainFiles EXCEPT ![BronzeFile] = WrittenBy(mainRun)]
            /\ mainPc' = "bronzed"
       ELSE /\ mainFiles' = mainFiles
            /\ mainPc' = "crashed"
    /\ UNCHANGED <<mainRun, mainGoldRead, mainEnv>>
    /\ MainUnchanged

\* Line 16: run_silver(bronze_path), which writes silver_issues.parquet.
MainSilver ==
    /\ mainPc = "bronzed"
    /\ mainLog' = Append(mainLog, "silver")
    /\ mainFiles' = [mainFiles EXCEPT ![SilverOutFile] = WrittenBy(mainRun)]
    /\ mainPc' = "finished"
    /\ UNCHANGED <<mainRun, mainGoldRead, mainEnv>>
    /\ MainUnchanged

\* main.py is executed once more; the files stay.
MainAgain ==
    /\ mainPc \in {"finished", "crashed"}
    /\ mainRun < MaxMainRuns
    /\ mainRun' = mainRun + 1
    /\ mainPc' = "start"
    /\ mainLog' = <<>>
    /\ mainGoldRead' = ""
    /\ mainEnv' \in MainEnvs
    /\ UNCHANGED mainFiles
    /\ MainUnchanged

MainNext == MainGold \/ MainIngest \/ MainBronze \/ MainSilver \/ MainAgain

(***************************************************************************)
(*                          SPECIFICATIONS                                 *)
(***************************************************************************)
InitGate == GateInit /\ BhIdle /\ SlaIdle /\ GoldIdle /\ SilverIdle /\ RepIdle /\ MainIdle
SpecGate == InitGate /\ [][GateNext]_vars

InitBH == GateIdle /\ BhInit /\ SlaIdle /\ GoldIdle /\ SilverIdle /\ RepIdle /\ MainIdle
SpecBH == InitBH /\ [][BhNext]_vars

InitSla == GateIdle /\ BhIdle /\ SlaInit /\ GoldIdle /\ SilverIdle /\ RepIdle /\ MainIdle
SpecSla == InitSla /\ [][SlaNext]_vars

InitGold == GateIdle /\ BhIdle /\ SlaIdle /\ GoldInit /\ SilverIdle /\ RepIdle /\ MainIdle
SpecGold == InitGold /\ [][GoldNext]_vars

\* Runs of the gold stage over changing silver datasets.
InitGoldRuns ==
    GateIdle /\ BhIdle /\ SlaIdle /\ GoldRunsInit /\ SilverIdle /\ RepIdle /\ MainIdle
SpecGoldRuns == InitGoldRuns /\ [][GoldRunsNext]_vars

\* Runs of the silver stage over changing bronze datasets.
InitSilverRuns ==
    GateIdle /\ BhIdle /\ SlaIdle /\ GoldIdle /\ SilverRunsInit /\ RepIdle /\ MainIdle
SpecSilverRuns == InitSilverRuns /\ [][SilverRunsNext]_vars

\* One stage at work on any input it can be given: a run of the silver stage,
\* runs of the gold stage, or a call of the aggregator.
InitStages ==
    /\ GateIdle /\ BhIdle /\ SlaIdle /\ MainIdle
    /\ \/ SilverInit /\ GoldIdle /\ RepIdle
       \/ SilverIdle /\ GoldInit /\ RepIdle
       \/ SilverIdle /\ GoldIdle /\ RepInit
StagesNext == SilverNext \/ GoldNext \/ RepNext
SpecStages == InitStages /\ [][StagesNext]_vars

\* One execution of main.py after the other.
InitMain == GateIdle /\ BhIdle /\ SlaIdle /\ GoldIdle /\ SilverIdle /\ RepIdle /\ MainInit
SpecMain == InitMain /\ [][MainNext]_vars
(***************************************************************************)
(*                     CLAIMS ABOUT THE QUALITY GATE                       *)
(***************************************************************************)
Labels(df) == {df[i].idx : i \in DOMAIN df}

\* The position in df of the row carrying an index label.
PositionOf(df, label) == CHOOSE i \in DOMAIN df : df[i].idx = label

\* C1: split_quality_checks places every input row in exactly one of valid and
\* rejects: no row is in both, none is dropped, |valid| + |rejects| = |input|,
\* and the rows of valid and rejects (the reject_reason column ignored) are
\* exactly the input rows.
C1_PartitionComplete ==
    gatePc \in {"split", "regated"} =>
        /\ Len(gateValid) + Len(gateRejects) = Len(gateInput)
        /\ Labels(gateValid) \cap Labels(gateRejects) = {}
        /\ Range(gateValid) \cup {DropReason(r) : r \in Range(gateRejects)}
               = Range(gateInput)

C1_Witness ==
    /\ gatePc = "split"
    /\ Len(gateValid) > 0
    /\ Len(gateRejects) > 1

\* The reason the first failing check gives, in the order missing_issue_id,
\* missing_created_at, duplicate_issue_id.
FirstFailingCheck(df, i) ==
    IF IsNa(df[i].issue_id) THEN "missing_issue_id"
    ELSE IF IsNa(df[i].created_at) THEN "missing_created_at"
    ELSE IF \E j \in 1..(i - 1) : df[j].issue_id = df[i].issue_id
         THEN "duplicate_issue_id"
    ELSE NA

\* C2: every rejected row carries the reason of the earliest check it fails,
\* in the order missing_issue_id, missing_created_at, duplicate_issue_id.
C2_FirstMatchWins ==
    gatePc = "split" =>
        \A k \in DOMAIN gateRejects :
            gateRejects[k].reject_reason
                = FirstFailingCheck(gateInput, PositionOf(gateInput, gateRejects[k].idx))

\* C3: for every non-null issue_id of the input, its first row is valid
\* whenever that row's created_at is present, and every later row with the
\* same id is rejected, well-formed or not.
C3_FirstOccurrenceWins ==
    gatePc = "split" =>
        \A i \in DOMAIN gateInput :
            ~IsNa(gateInput[i].issue_id) =>
                IF \E j \in 1..(i - 1) : gateInput[j].issue_id = gateInput[i].issue_id
                THEN gateInput[i].idx \in Labels(gateRejects)
                ELSE ~IsNa(gateInput[i].created_at) =>
                         gateInput[i].idx \in Labels(gateValid)

C3_Witness ==
    /\ gatePc = "split"
    /\ \E i, j \in DOMAIN gateInput :
        /\ i < j
        /\ ~IsNa(gateInput[i].issue_id)
        /\ gateInput[j].issue_id = gateInput[i].issue_id
        /\ ~IsNa(gateInput[i].created_at)
        /\ ~IsNa(gateInput[j].created_at)
        /\ gateInput[i].idx \in Labels(gateValid)
        /\ gateInput[j].idx \in Labels(gateRejects)

\* C4: the gate applied to its own valid output returns that output unchanged
\* as valid and rejects nothing.
C4_GateIdempotent ==
    gatePc = "regated" =>
        /\ gateAgainValid = gateValid
        /\ gateAgainRejects = <<>>

C4_Witness ==
    /\ gatePc = "regated"
    /\ Len(gateValid) > 1
    /\ Len(gateRejects) > 0

(***************************************************************************)
(*               CLAIMS ABOUT THE BUSINESS-HOURS CALCULATOR                *)
(***************************************************************************)
\* A business day: Monday to Friday and not a holiday.
IsBusinessDate(d, holidays) == WeekdayOf(d) < 5 /\ d \notin holidays

\* The seconds of [from, to] inside the business window of day d.
WindowOverlap(d, from, to, window) ==
    LET lo == Max(from, Combine(d, window[1]))
        hi == Min(to, Combine(d, window[2]))
    IN  IF hi > lo THEN hi - lo ELSE 0

\* The total length, in seconds, of the intersection of [from, to] with the
\* business windows of the business days from day d on.
RECURSIVE BusinessSecondsFrom(_, _, _, _, _)
BusinessSecondsFrom(d, from, to, holidays, window) ==
    IF d > DateOf(to) THEN 0
    ELSE (IF IsBusinessDate(d, holidays) THEN WindowOverlap(d, from, to, window) ELSE 0)
         + BusinessSecondsFrom(d + 1, from, to, holidays, window)

BusinessSeconds(from, to, holidays, window) ==
    BusinessSecondsFrom(DateOf(from), from, to, holidays, window)


\* C5 as stated: for end > start the returned hours are exactly the length of
\* the intersection of [start, end] with the business windows of the business
\* days (one hundredth of an hour is 36 seconds).
C5_ExactIntersection ==
    (bhPc = "calculated" /\ bhEnd > bhStart) =>
        /\ bhResult.exc = "none"
        /\ bhResult.value * 36 = BusinessSeconds(bhStart, bhEnd, bhHolidays, bhWindow)

\* C5 as amended: for end > start the returned hours are that length rounded
\* to two decimals; Friday 16:00 to Monday 10:00 with the window 09:00-17:00
\* and no holidays gives 2.00, and a start and end on the same weekend day or
\* holiday give 0.00.
C5_RoundedIntersection ==
    (bhPc = "calculated" /\ bhEnd > bhStart) =>
        /\ bhResult.exc = "none"
        /\ LET secs == BusinessSeconds(bhStart, bhEnd, bhHolidays, bhWindow)
               v == bhResult.value
           IN  /\ (2 * v - 1) * 18 <= secs
               /\ secs <= (2 * v + 1) * 18
        /\ ( /\ bhStart = Combine(Friday, TimeOfDay(16, 0, 0))
             /\ bhEnd = Combine(Monday, TimeOfDay(10, 0, 0))
             /\ bhWindow = OfficeWindow
             /\ bhHolidays = {} ) => bhResult.value = 200
        /\ ( /\ DateOf(bhStart) = DateOf(bhEnd)
             /\ ~IsBusinessDate(DateOf(bhStart), bhHolidays) ) => bhResult.value = 0

C5_Witness ==
    /\ bhPc = "calculated"
    /\ bhStart = Combine(Friday, TimeOfDay(16, 0, 0))
    /\ bhEnd = Combine(Monday, TimeOfDay(10, 0, 0))
    /\ bhWindow = OfficeWindow
    /\ bhHolidays = {}
    /\ bhResult = Returned(200)

\* C6: for a fixed start, holiday set and window, a later end never gives
\* fewer business hours.
C6_MonotoneInEnd ==
    (bhPc = "recalculated" /\ bhPrevEnd <= bhEnd) =>
        /\ bhPrevResult.exc = "none"
        /\ bhResult.exc = "none"
        /\ bhPrevResult.value <= bhResult.value

C6_Witness ==
    /\ bhPc = "recalculated"
    /\ bhStart < bhPrevEnd
    /\ bhPrevEnd < bhEnd
    /\ 0 < bhPrevResult.value
    /\ bhPrevResult.value < bhResult.value

\* C7: an end at or before the start gives 0 and raises nothing, and no pair
\* of instants gives a negative result.
C7_EndNotAfterStartIsZero ==
    bhPc \in {"calculated", "recalculated"} =>
        /\ bhResult.exc = "none"
        /\ bhResult.value >= 0
        /\ bhEnd <= bhStart => bhResult = Returned(0)

C7_Witness ==
    /\ bhPc = "calculated"
    /\ bhEnd < bhStart
    /\ DateOf(bhEnd) < DateOf(bhStart)
    /\ bhResult = Returned(0)

(***************************************************************************)
(*                    CLAIMS ABOUT THE SLA CLASSIFIER                      *)
(***************************************************************************)
\* C9: get_sla_status returns met exactly when actual_hours <= expected_hours
\* and violated otherwise; actual = expected is met, actual = expected + 0.01
\* is violated, and nothing else is returned.
C9_MetIffWithinBudget ==
    slaPc = "classified" =>
        /\ slaStatus \in {"met", "violated"}
        /\ slaStatus = "met" <=> slaActual <= slaExpected * 100
        /\ slaActual = slaExpected * 100 => slaStatus = "met"
        /\ slaActual = slaExpected * 100 + 1 => slaStatus = "violated"

C9_Witness ==
    /\ slaPc = "classified"
    /\ slaActual = slaExpected * 100
    /\ slaStatus = "met"

\* C10: get_expected_sla_hours returns a positive integer for every priority:
\* the table value for High, Medium and Low, the default for any other or
\* missing priority.
C10_ExpectedHoursTotal ==
    slaPc \in {"expected", "classified"} =>
        /\ slaExpected \in Nat \ {0}
        /\ slaPriority = "High" => slaExpected = 24
        /\ slaPriority = "Medium" => slaExpected = 72
        /\ slaPriority = "Low" => slaExpected = 120
        /\ slaPriority \notin {"High", "Medium", "Low"} => slaExpected = 72

C10_Witness ==
    /\ slaPc = "expected"
    /\ slaPriority = NA
    /\ slaExpected = 72

(***************************************************************************)
(*                      CLAIMS ABOUT THE GOLD STAGE                        *)
(***************************************************************************)
\* The rows of the silver dataset that are eligible for the SLA computation
\* and lack created_at or resolved_at.
EligibleWithMissingTimestamp ==
    {i \in DOMAIN goldSilver :
        /\ goldSilver[i].status \in {"Done", "Resolved"}
        /\ IsNaT(goldSilver[i].created_at) \/ IsNaT(goldSilver[i].resolved_at)}

\* C8: a Done or Resolved row without created_at or resolved_at gets
\* resolution_time_business_hours = 0 and the run goes on: the missing
\* timestamp does not end calculate_sla_metrics with an exception.
C8_MissingTimestampGivesZero ==
    (goldPc \in {"done", "failed"} /\ EligibleWithMissingTimestamp # {}) =>
        /\ goldError # "TypeError"
        /\ goldPc = "done" =>
               \A i \in EligibleWithMissingTimestamp :
                   \E k \in DOMAIN goldOut :
                       /\ goldOut[k].idx = goldSilver[i].idx
                       /\ goldOut[k].resolution_time_business_hours = 0

(***************************************************************************)
(* C11 - C19                                                               *)
(***************************************************************************)
\* C11: no SLA verdict is computed for an open issue: every row of the gold
\* output has status Done or Resolved, and every row of the silver clean
\* output has status Open, Done or Resolved.
C11_NoVerdictForOpenIssues ==
    /\ \A i \in DOMAIN goldOut :
          /\ goldOut[i].status \in {"Done", "Resolved"}
          /\ goldOut[i].sla_status \in {"met", "violated"}
    /\ \A i \in DOMAIN silverClean.rows :
          silverClean.rows[i].status \in {"Open", "Done", "Resolved"}

C11_Witness ==
    /\ goldPc = "done"
    /\ goldOut # <<>>
    /\ Len(goldOut) < Len(goldSilver)
    /\ \E i \in DOMAIN goldSilver : goldSilver[i].status = "Open"

\* C12: when the holiday API cannot be reached for a year the run needs and
\* no cache file of that year exists, run_gold ends with the error of the
\* request, hands no holiday set to the calculator, computes no row and leaves
\* the gold dataset and the reports as they were.
C12_UnreachableCalendarStopsRun ==
    [][ ( /\ goldPc = "ready"
          /\ goldPc' # "ready"
          /\ \E key \in HolidayYears(FilterResolved(goldSilver)) :
                key \notin holidayCache /\ ~UrlOpens(key, networkUp) )
        => ( /\ goldPc' = "failed"
             /\ goldError' = "URLError"
             /\ goldHolidays' = {}
             /\ goldOut' = goldOut
             /\ goldReports' = goldReports ) ]_vars

C12_Witness ==
    /\ goldPc = "failed"
    /\ goldError = "URLError"
    /\ ~networkUp
    /\ FilterResolved(goldSilver) # <<>>
    /\ goldOut = <<>>

\* C13: in every run, the holiday API is asked for a year only when no cache
\* entry of that year exists, an answered request leaves a cache entry, and
\* no year is asked for twice.
C13_FetchOnlyOnCacheMiss ==
    [][ (goldPc = "ready" /\ goldPc' # "ready") =>
            /\ \A k \in DOMAIN goldFetched' :
                  /\ ~\E entry \in holidayCache : entry.year = goldFetched'[k].year
                  /\ UrlOpens(goldFetched'[k], networkUp) =>
                        goldFetched'[k] \in holidayCache'
            /\ \A j, k \in DOMAIN goldFetched' :
                  j # k => goldFetched'[j].year # goldFetched'[k].year ]_vars

\* C14: after every run of the silver stage the rejects file holds exactly
\* the rows that run rejected, each with its reject_reason, and no rows when
\* the run rejected nothing.
C14_RejectsFileHoldsThisRunsRejects ==
    silverPc = "done" => silverRejectsFile.rows = ToParquet(silverRunRejects).rows

\* The sum of the issue_count column of a report.
RECURSIVE SumIssueCount(_, _)
SumIssueCount(report, k) ==
    IF k > Len(report) THEN 0
    ELSE report[k].issue_count + SumIssueCount(report, k + 1)

\* C15 as stated: in each report of build_sla_reports the issue_count values
\* add up to the number of rows of the input, for every input that has the
\* required columns, rows with a missing group key included.
C15_CountsAddUpToRows ==
    (repPc = "built" /\ RequiredCols \subseteq repInput.columns) =>
        /\ repResult.exc = "none"
        /\ SumIssueCount(repResult.value.by_assignee, 1) = Len(repInput.rows)
        /\ SumIssueCount(repResult.value.by_issue_type, 1) = Len(repInput.rows)

\* C15 as amended: in each report of build_sla_reports the issue_count
\* values add up to the number of rows of the input, for every input that has
\* the required columns and no missing issue_id, rows with a missing group
\* key included.
C15_CountsAddUpToRowsWithIds ==
    ( /\ repPc = "built"
      /\ RequiredCols \subseteq repInput.columns
      /\ \A i \in DOMAIN repInput.rows : ~IsNa(repInput.rows[i].issue_id) ) =>
        /\ repResult.exc = "none"
        /\ SumIssueCount(repResult.value.by_assignee, 1) = Len(repInput.rows)
        /\ SumIssueCount(repResult.value.by_issue_type, 1) = Len(repInput.rows)

C15_Witness ==
    /\ repPc = "built"
    /\ repResult.exc = "none"
    /\ Len(repInput.rows) = 2
    /\ \A i \in DOMAIN repInput.rows : ~IsNa(repInput.rows[i].issue_id)
    /\ IsNa(repInput.rows[1].assignee_name)
    /\ IsNa(repInput.rows[1].issue_type)
    /\ repInput.rows[2].assignee_name = "Ana"
    /\ Len(repResult.value.by_assignee) = 2

C17_StagesRunInOrder ==
    /\ \E n \in 0..4 : mainLog = SubSeq(<<"ingest", "bronze", "silver", "gold">>, 1, n)
    /\ mainGoldRead # "" =>
          /\ mainGoldRead = SilverOutFile
          /\ mainFiles[SilverOutFile] = WrittenBy(mainRun)

\* C18: with the default window and start < end, the result is the length of
\* [start, end] without its part on Saturdays, Sundays and holidays, rounded
\* to two decimals: every business day counts from midnight to midnight.
C18_FullDayWindowCountsWholeDays ==
    (bhPc = "calculated" /\ bhWindow = DefaultWindow /\ bhStart < bhEnd) =>
        bhResult = Returned(Round2(BusinessSeconds(bhStart, bhEnd, bhHolidays,
                                                   <<0, SecondsPerDay>>)))

\* C19: for every row calculate_sla_metrics processed, the holiday set handed
\* to the calculator holds the public holidays of every year with a day
\* between the row's created_at and resolved_at.
C19_HolidaysOfEveryYearWalked ==
    goldPc = "done" =>
        \A i \in DOMAIN goldOut :
            \A d \in DateOf(goldOut[i].created_at)..DateOf(goldOut[i].resolved_at) :
                PublicHolidays(YearOf(d)) \subseteq goldHolidays
====
